---- MODULE Spec2Model ----
(***************************************************************************)
(* TAC to DAG visualizer (app.py): the parser/graph builder                *)
(* parse_tac_to_dag, the two sequence generators get_optimal_sequence and  *)
(* get_heuristic_sequence, and the part of the "Generate" button handler   *)
(* that calls them.                                                        *)
(*                                                                         *)
(* A line of the text area is modelled as the sequence of its whitespace-  *)
(* separated tokens (the text is the tokens joined by single blanks).  The *)
(* networkx DiGraph is modelled with its insertion-ordered node dictionary *)
(* and insertion-ordered adjacency lists, since the order produced by      *)
(* nx.topological_sort depends on both.                                    *)
(***************************************************************************)
EXTENDS Integers, Sequences, FiniteSets, TLC

\* ------------------------------------------------------------------ bounds
MaxLines == 3

\* ------------------------------------------------------------ input tokens
\* the names and the literal the generated lines are made of
Names == {"a", "b", "c"}
Literals == {"1"}
Operators == {"+", "-"}
\* further names of the example of the text area placeholder
ExampleNames == {"d", "e", "f", "g"}
\* tokens matched by the regular expression class \w+
Words == Names \cup Literals \cup ExampleNames

Range(s) == {s[i] : i \in 1..Len(s)}

\* ---------------------------------------------------------------- networkx
\* nx.DiGraph(): nodes in insertion order, node attribute 'label',
\* successors of every node in insertion order
EmptyGraph == [nodes |-> <<>>, label |-> <<>>, succ |-> <<>>]

HasNode(G, n) == n \in Range(G.nodes)

\* G.add_node(n, label=lab): a new node is appended; an existing node only
\* has its attribute updated
add_node(G, n, lab) ==
    IF HasNode(G, n)
    THEN [G EXCEPT !.label = (n :> lab) @@ G.label]
    ELSE [nodes |-> Append(G.nodes, n),
          label |-> (n :> lab) @@ G.label,
          succ  |-> (n :> <<>>) @@ G.succ]

\* the node insertion add_edge performs for an endpoint that is missing
touch_node(G, n) ==
    IF HasNode(G, n) THEN G
    ELSE [G EXCEPT !.nodes = Append(G.nodes, n), !.succ = (n :> <<>>) @@ G.succ]

\* G.add_edge(u, v): missing endpoints are inserted, an existing edge is kept
add_edge(G, u, v) ==
    LET H == touch_node(touch_node(G, u), v)
    IN  IF v \in Range(H.succ[u]) THEN H
        ELSE [H EXCEPT !.succ[u] = Append(@, v)]

Edges(G) == {<<u, v>> \in Range(G.nodes) \X Range(G.nodes) : v \in Range(G.succ[u])}

successors(G, n) == G.succ[n]

in_degree(G, v) == Cardinality({u \in Range(G.nodes) : v \in Range(G.succ[u])})


\* nx.topological_generations, inner loop: for child in G.neighbors(node)
RECURSIVE visit_children(_, _, _, _)
visit_children(children, i, indegree_map, zero_indegree) ==
    IF i > Len(children)
    THEN [indegree_map |-> indegree_map, zero_indegree |-> zero_indegree]
    ELSE LET child == children[i]
             d == indegree_map[child] - 1
         IN  visit_children(children, i + 1,
                            [indegree_map EXCEPT ![child] = d],
                            IF d = 0 THEN Append(zero_indegree, child)
                                     ELSE zero_indegree)

\* nx.topological_generations, middle loop: for node in this_generation
RECURSIVE visit_generation(_, _, _, _, _)
visit_generation(G, this_generation, i, indegree_map, zero_indegree) ==
    IF i > Len(this_generation)
    THEN [indegree_map |-> indegree_map, zero_indegree |-> zero_indegree]
    ELSE LET r == visit_children(G.succ[this_generation[i]], 1,
                                 indegree_map, zero_indegree)
         IN  visit_generation(G, this_generation, i + 1,
                              r.indegree_map, r.zero_indegree)

\* nx.topological_generations, outer loop: while zero_indegree; when nodes
\* with a positive in-degree are left over, NetworkXUnfeasible is raised
RECURSIVE generations(_, _, _, _)
generations(G, zero_indegree, indegree_map, out) ==
    IF zero_indegree = <<>>
    THEN IF \E v \in DOMAIN indegree_map : indegree_map[v] > 0
         THEN [raised |-> TRUE, value |-> <<>>]
         ELSE [raised |-> FALSE, value |-> out]
    ELSE LET r == visit_generation(G, zero_indegree, 1, indegree_map, <<>>)
         IN  generations(G, r.zero_indegree, r.indegree_map, out \o zero_indegree)

\* the subsequence of s whose elements satisfy membership in S
RECURSIVE SelectIn(_, _)
SelectIn(s, S) ==
    IF s = <<>> THEN <<>>
    ELSE IF Head(s) \in S THEN <<Head(s)>> \o SelectIn(Tail(s), S)
         ELSE SelectIn(Tail(s), S)

\* list(nx.topological_sort(G)): the generations, concatenated; the first
\* generation is the nodes of in-degree 0 in node insertion order
topological_sort(G) ==
    LET indeg == [v \in Range(G.nodes) |-> in_degree(G, v)]
    IN  generations(G, SelectIn(G.nodes, {v \in Range(G.nodes) : indeg[v] = 0}),
                    indeg, <<>>)

\* ------------------------------------------------------------------ python
\* list.sort(key=...): stable, ascending.  insort puts x behind every
\* element whose key is not greater than the key of x
RECURSIVE insort_strict(_, _, _)
insort_strict(sorted, x, key) ==
    IF sorted = <<>> THEN <<x>>
    ELSE IF key[Head(sorted)] < key[x]
         THEN <<Head(sorted)>> \o insort_strict(Tail(sorted), x, key)
         ELSE <<x>> \o sorted

RECURSIVE insort(_, _, _)
insort(sorted, x, key) ==
    IF sorted = <<>> THEN <<x>>
    ELSE IF key[Head(sorted)] <= key[x]
         THEN <<Head(sorted)>> \o insort(Tail(sorted), x, key)
         ELSE <<x>> \o sorted

RECURSIVE list_sort(_, _)
list_sort(s, key) ==
    IF s = <<>> THEN <<>>
    ELSE insort(list_sort(SubSeq(s, 1, Len(s) - 1), key), s[Len(s)], key)

\* dict.get(k, default)
dict_get(d, k, default) == IF k \in DOMAIN d THEN d[k] ELSE default

\* ------------------------------------------------------ sequence generators
\* variant: the nodes in insertion order, not sorted topologically
get_optimal_sequence_unsorted(G) == [raised |-> FALSE, value |-> G.nodes]

get_optimal_sequence(G) == topological_sort(G)

\* variant: the nodes sorted by successor count without the topological sort
get_heuristic_sequence_unchecked(G) ==
    [raised |-> FALSE,
     value |-> list_sort(G.nodes, [node \in Range(G.nodes) |-> Len(successors(G, node))])]

get_heuristic_sequence(G) ==
    LET successor_counts == [node \in Range(G.nodes) |-> Len(successors(G, node))]
        topo == topological_sort(G)
    IN  IF topo.raised THEN topo
        ELSE [raised |-> FALSE, value |-> list_sort(topo.value, successor_counts)]


\* -------------------------------------------------------------- TAC parser
\* '=' in line
has_equals(line) == "=" \in Range(line)

\* assignment_pattern.match(line) for ^\s*(\w+)\s*=\s*(.+)\s*$ : the first
\* token is a word, the second is '=', and something follows
assignment_match(line) ==
    /\ Len(line) >= 3
    /\ line[1] \in Words
    /\ line[2] = "="

\* f'{operator}_{count}'
node_name_of(operator, count) == operator \o "_" \o ToString(count)

\* for op in [op1, op2]: if op not in expr_map and op not in G: add_node
add_operand(G, expr_map, op) ==
    IF op \notin DOMAIN expr_map /\ ~HasNode(G, op) THEN add_node(G, op, op) ELSE G

\* the branch len(tokens) == 1
parse_copy(s, target) ==
    [s EXCEPT !.G = add_node(@, target, target),
              !.expr_map = (target :> target) @@ @]

\* variant of the branch len(tokens) == 3 that leaves the counter alone
parse_binary_same_count(s, target, tokens) ==
    LET node_name == node_name_of(tokens[2], s.count)
        G1 == add_node(s.G, node_name, tokens[2])
        G2 == add_operand(add_operand(G1, s.expr_map, tokens[1]), s.expr_map, tokens[3])
        G3 == add_edge(add_edge(G2, dict_get(s.expr_map, tokens[1], tokens[1]), node_name),
                       dict_get(s.expr_map, tokens[3], tokens[3]), node_name)
        G4 == add_edge(add_node(G3, target, target), node_name, target)
    IN  [G |-> G4,
         expr_map |-> (target :> target) @@ s.expr_map,
         count |-> s.count,
         warnings |-> s.warnings]

\* the branch len(tokens) == 3
parse_binary(s, target, tokens) ==
    LET op1 == tokens[1]
        operator == tokens[2]
        op2 == tokens[3]
        node_name == node_name_of(operator, s.count)
        G1 == add_node(s.G, node_name, operator)
        G2 == add_operand(add_operand(G1, s.expr_map, op1), s.expr_map, op2)
        left == dict_get(s.expr_map, op1, op1)
        right == dict_get(s.expr_map, op2, op2)
        G3 == add_edge(add_edge(G2, left, node_name), right, node_name)
        G4 == add_edge(add_node(G3, target, target), node_name, target)
    IN  [G |-> G4,
         expr_map |-> (target :> target) @@ s.expr_map,
         count |-> s.count + 1,
         warnings |-> s.warnings]

\* one iteration of the loop "for line in lines" of parse_tac_to_dag
parse_line(s, line) ==
    IF ~has_equals(line) THEN s
    ELSE IF ~assignment_match(line) THEN s
    ELSE LET target == line[1]
             tokens == SubSeq(line, 3, Len(line))
         IN  IF Len(tokens) = 1 THEN parse_copy(s, target)
             ELSE IF Len(tokens) = 3 THEN parse_binary(s, target, tokens)
             ELSE [s EXCEPT !.warnings = Append(@, line)]

\* the state of parse_tac_to_dag before its loop
parse_start == [G |-> EmptyGraph, expr_map |-> <<>>, count |-> 0, warnings |-> <<>>]

\* parse_tac_to_dag on the text whose lines are ls
RECURSIVE parse_tac_to_dag(_)
parse_tac_to_dag(ls) ==
    IF ls = <<>> THEN parse_start
    ELSE parse_line(parse_tac_to_dag(SubSeq(ls, 1, Len(ls) - 1)), ls[Len(ls)])

\* ------------------------------------------------------------------ inputs
\* target = op1 operator op2: the targets a and b over two free names, a
\* pair that holds both targets and a repeated operand; then a third target
\* that is an operand of its own line, a second operator, a literal, and a
\* line whose middle token is a name (the parser does not look at it)
OperandPairs == {<<"b", "c">>, <<"a", "b">>, <<"c", "c">>}
BinaryLines ==
    {<<t, "=", p[1], "+", p[2]>> : t \in {"a", "b"}, p \in OperandPairs}
    \cup {<<"c", "=", "b", "+", "c">>, <<"a", "=", "b", "-", "c">>,
          <<"b", "=", "a", "+", "1">>, <<"a", "=", "b", "c", "a">>}
\* target = operand
CopyLines == {<<"a", "=", "b">>, <<"c", "=", "1">>}
\* lines of no recognised shape: '=' last, nothing after '=', two and four
\* tokens after '=', no '=' at all
OtherLines == {<<"a", "b", "c", "=">>, <<"a", "=">>, <<"a", "=", "b", "c">>,
               <<"a", "=", "b", "+", "c", "a">>, <<"a", "+", "b">>}
Lines == BinaryLines \cup CopyLines \cup OtherLines

\* ------------------------------------------------------------------- state
VARIABLES
    lines,      \* the lines of tac_code the loop has gone through
    G,          \* the DiGraph under construction
    expr_map,   \* variable name -> node name
    count,      \* operator node counter
    warnings,   \* the lines reported with st.warning
    pc,         \* "parse": in the loop; "done": the button handler returned
    outcome,    \* what the button handler showed
    optimal,    \* result of get_optimal_sequence
    heuristic   \* result of get_heuristic_sequence

vars == <<lines, G, expr_map, count, warnings, pc, outcome, optimal, heuristic>>

parser_state == [G |-> G, expr_map |-> expr_map, count |-> count, warnings |-> warnings]

Init ==
    /\ lines = <<>>
    /\ G = parse_start.G
    /\ expr_map = parse_start.expr_map
    /\ count = parse_start.count
    /\ warnings = parse_start.warnings
    /\ pc = "parse"
    /\ outcome = "none"
    /\ optimal = <<>>
    /\ heuristic = <<>>

\* the loop body of parse_tac_to_dag on the next line of the text
ParseLine(line) ==
    /\ pc = "parse"
    /\ Len(lines) < MaxLines
    /\ LET s == parse_line(parser_state, line)
       IN  /\ G' = s.G
           /\ expr_map' = s.expr_map
           /\ count' = s.count
           /\ warnings' = s.warnings
    /\ lines' = Append(lines, line)
    /\ UNCHANGED <<pc, outcome, optimal, heuristic>>

\* the button handler with an empty text area: st.error, nothing is parsed
GenerateNoInput ==
    /\ pc = "parse"
    /\ lines = <<>>
    /\ pc' = "done"
    /\ outcome' = "no_input"
    /\ UNCHANGED <<lines, G, expr_map, count, warnings, optimal, heuristic>>

\* the button handler after parse_tac_to_dag returned a graph without nodes
GenerateEmptyGraph ==
    /\ pc = "parse"
    /\ lines # <<>>
    /\ G.nodes = <<>>
    /\ pc' = "done"
    /\ outcome' = "empty_graph"
    /\ UNCHANGED <<lines, G, expr_map, count, warnings, optimal, heuristic>>

\* the button handler on a graph with nodes: both sequences are computed;
\* an exception of either call is caught by "except Exception"
GenerateSequences ==
    /\ pc = "parse"
    /\ lines # <<>>
    /\ G.nodes # <<>>
    /\ pc' = "done"
    /\ LET o == get_optimal_sequence(G)
           h == get_heuristic_sequence(G)
       IN  IF o.raised \/ h.raised
           THEN /\ outcome' = "exception"
                /\ UNCHANGED <<optimal, heuristic>>
           ELSE /\ outcome' = "sequences"
                /\ optimal' = o.value
                /\ heuristic' = h.value
    /\ UNCHANGED <<lines, G, expr_map, count, warnings>>

Next ==
    \/ \E line \in Lines : ParseLine(line)
    \/ GenerateNoInput
    \/ GenerateEmptyGraph
    \/ GenerateSequences

Spec == Init /\ [][Next]_vars

TypeOK ==
    /\ Len(lines) <= MaxLines
    /\ pc \in {"parse", "done"}
    /\ outcome \in {"none", "no_input", "empty_graph", "sequences", "exception"}
    /\ count \in 0..MaxLines


\* ================================================================ properties
\* ------------------------------------------------------------------ helpers
\* the parser state after the first i lines of the text
After(i) == parse_tac_to_dag(SubSeq(lines, 1, i))

\* the line takes the branch len(tokens) == 3 / len(tokens) == 1
IsBinary(line) == has_equals(line) /\ assignment_match(line) /\ Len(line) = 5
IsCopy(line) == has_equals(line) /\ assignment_match(line) /\ Len(line) = 3

BinaryAt == {i \in 1..Len(lines) : IsBinary(lines[i])}
CopyAt == {i \in 1..Len(lines) : IsCopy(lines[i])}

NodeSet(H) == Range(H.nodes)
InEdges(H, n) == {e \in Edges(H) : e[2] = n}
OutEdges(H, n) == {e \in Edges(H) : e[1] = n}

\* the node a name used as an operand of line i resolves to
Resolved(i, op) == dict_get(After(i - 1).expr_map, op, op)

\* the nodes from which line i added an edge into the node of its target
FeedersAt(i) ==
    {e[1] : e \in {d \in Edges(After(i).G) \ Edges(After(i - 1).G) : d[2] = lines[i][1]}}

\* a graph has a directed cycle exactly when some non-empty set of its
\* nodes gives each of its members a predecessor inside the set
HasCycle(H) ==
    LET E == Edges(H)
    IN  \E S \in SUBSET NodeSet(H) :
            /\ S # {}
            /\ \A n \in S : \E m \in S : <<m, n>> \in E

\* position of x in a sequence without repetitions that holds x
Pos(s, x) == CHOOSE i \in 1..Len(s) : s[i] = x

IsPermutationOf(s, S) == Range(s) = S /\ Len(s) = Cardinality(S)

\* the state variables are the result of the parser on the lines read
ParserConsistent == parser_state = parse_tac_to_dag(lines)


\* the names assigned by the lines read so far
TargetNodes == {lines[i][1] : i \in BinaryAt \cup CopyAt}

\* the lines i..j-1 assign to none of the operands of line j
OperandsKept(i, j) ==
    \A k \in i..(j - 1) :
        (k \in BinaryAt \cup CopyAt) => lines[k][1] \notin {lines[j][3], lines[j][5]}

\* nodes that stand for an operator
OperatorNodes(H) == {n \in NodeSet(H) : n \in DOMAIN H.label /\ H.label[n] \in Operators}

\* -------------------------------------------------------------------- C1
\* C1 (CSE identity): two binary instructions with the same operator and the
\* same resolved left and right operands (none of them assigned in between)
\* feed their targets from one shared operator node, so that
\* "a = b + c" followed by "c = b + c" leaves exactly one "+" node.
CSEIdentity ==
    \A i \in BinaryAt : \A j \in BinaryAt :
        ( /\ i < j
          /\ lines[i][4] = lines[j][4]
          /\ Resolved(i, lines[i][3]) = Resolved(j, lines[j][3])
          /\ Resolved(i, lines[i][5]) = Resolved(j, lines[j][5])
          /\ OperandsKept(i, j) )
        => /\ Cardinality(FeedersAt(i)) = 1
           /\ FeedersAt(j) = FeedersAt(i)

\* -------------------------------------------------------------------- C2
\* C2 (acyclicity by construction): after any prefix of any sequence of
\* lines the graph has no directed cycle.
Acyclicity == ~HasCycle(G)

\* -------------------------------------------------------------------- C3
\* C3 (topological validity of both schedules): whenever the two sequences
\* were produced, every edge u -> v of the graph has u before v in the
\* optimal sequence and in the heuristic sequence.
TopologicalValidity ==
    outcome = "sequences" =>
        \A e \in Edges(G) :
            /\ Pos(optimal, e[1]) < Pos(optimal, e[2])
            /\ Pos(heuristic, e[1]) < Pos(heuristic, e[2])

ChainLines ==
    << <<"a", "=", "b", "+", "c">>, <<"d", "=", "a", "+", "e">>,
       <<"f", "=", "d", "+", "g">> >>

ChainOptimal == get_optimal_sequence(parse_tac_to_dag(ChainLines).G)

\* the example yields all ten nodes, the targets in the order a, d, f
ChainExample ==
    /\ ~ChainOptimal.raised
    /\ Len(ChainOptimal.value) = 10
    /\ SelectIn(ChainOptimal.value, {"a", "d", "f"}) = <<"a", "d", "f">>

AliasIdentity ==
    \A i \in CopyAt :
        LET t == lines[i][1]
            x == lines[i][3]
            xnode == Resolved(i, x)
        IN  t # x =>
              /\ t \notin NodeSet(After(i).G) \ NodeSet(After(i - 1).G)
              /\ \A j \in BinaryAt :
                    (j = i + 1 /\ t \in {lines[j][3], lines[j][5]})
                    => \E n \in FeedersAt(j) : <<xnode, n>> \in Edges(After(j).G)

\* -------------------------------------------------------------------- C6
\* a line with "=" of neither shape "target = operand" nor
\* "target = operand operator operand"
Malformed(line) == has_equals(line) /\ ~IsCopy(line) /\ ~IsBinary(line)
WellFormed(line) == IsCopy(line) \/ IsBinary(line)

\* C6 (malformed-line resilience): exactly the malformed lines are reported,
\* in order, lines without "=" are not, and the graph is the one built from
\* the well-formed lines alone.
MalformedLineResilience ==
    /\ warnings = SelectSeq(lines, Malformed)
    /\ G = parse_tac_to_dag(SelectSeq(lines, WellFormed)).G

\* -------------------------------------------------------------------- C7
\* C7 (heuristic sequence): the heuristic sequence is a permutation of the
\* optimal sequence, ascending in out-degree, and nodes of equal out-degree
\* keep their relative order of the optimal sequence.
HeuristicIsStableSort ==
    outcome = "sequences" =>
        /\ IsPermutationOf(heuristic, Range(optimal))
        /\ Len(heuristic) = Len(optimal)
        /\ \A i \in 1..Len(heuristic) : \A j \in 1..Len(heuristic) :
              i < j =>
                LET di == Cardinality(OutEdges(G, heuristic[i]))
                    dj == Cardinality(OutEdges(G, heuristic[j]))
                IN  /\ di <= dj
                    /\ di = dj => Pos(optimal, heuristic[i]) < Pos(optimal, heuristic[j])

\* witness of C7: the sort moved a node, and two nodes tie
HeuristicWitness ==
    /\ outcome = "sequences"
    /\ heuristic # optimal
    /\ \E i \in 1..Len(heuristic) : \E j \in 1..Len(heuristic) :
          /\ i < j
          /\ Cardinality(OutEdges(G, heuristic[i])) = Cardinality(OutEdges(G, heuristic[j]))
          /\ Cardinality(OutEdges(G, heuristic[i])) > 0

\* -------------------------------------------------------------------- C8
\* C8 (cycle detection): on a graph with a directed cycle both sequence
\* generators end by raising instead of returning an order, and the button
\* handler then reports the exception.
CycleDetected ==
    HasCycle(G) =>
        /\ get_optimal_sequence(G).raised
        /\ get_heuristic_sequence(G).raised
        /\ pc = "done" => outcome = "exception"

\* witness of C8: the handler ran on a cyclic graph and reported the failure
CycleWitness == pc = "done" /\ HasCycle(G) /\ outcome = "exception"

\* -------------------------------------------------------------------- C9
\* C9 (reassignment keeps old nodes intact): a binary instruction whose
\* target already has a node creates a new node for the target, and every
\* node that existed before keeps its label, its incoming edges and the
\* outgoing edges it had.
ReassignmentKeepsOldNodes ==
    \A i \in BinaryAt :
        LET t == lines[i][1]
            H0 == After(i - 1).G
            H1 == After(i).G
        IN  t \in NodeSet(H0) =>
              /\ \E r \in NodeSet(H1) \ NodeSet(H0) :
                    /\ After(i).expr_map[t] = r
                    /\ H1.label[r] = t
              /\ \A n \in NodeSet(H0) :
                    /\ InEdges(H1, n) = InEdges(H0, n)
                    /\ OutEdges(H0, n) \subseteq OutEdges(H1, n)
                    /\ H1.label[n] = H0.label[n]

\* ------------------------------------------------------------------- C10
\* the operator node made by the binary line i
OperatorNodeAt(i) ==
    node_name_of(lines[i][4], Cardinality({k \in BinaryAt : k < i}))

\* the middle token of every binary line read is one of the operators
OperatorTokensOnly == \A i \in BinaryAt : lines[i][4] \in Operators

\* C10 (operator node shape): when every binary line has an operator as its
\* middle token, every operator node has exactly one outgoing edge, to the
\* node named by the target of the line that made it, and one or two
\* incoming edges, from the nodes named by the operands of that line; count
\* is the number of operator nodes and of binary lines read.
OperatorNodeShape ==
    OperatorTokensOnly =>
        /\ count = Cardinality(OperatorNodes(G))
        /\ count = Cardinality(BinaryAt)
        /\ \A n \in OperatorNodes(G) :
              /\ Cardinality(OutEdges(G, n)) = 1
              /\ Cardinality(InEdges(G, n)) \in {1, 2}
        /\ \A i \in BinaryAt :
              LET n == OperatorNodeAt(i)
              IN  /\ n \in OperatorNodes(G)
                  /\ OutEdges(G, n) = {<<n, lines[i][1]>>}
                  /\ InEdges(G, n) = {<<lines[i][3], n>>, <<lines[i][5], n>>}

\* witness of C10: two operator nodes, one with one and one with two
\* incoming edges, the target of the second line assigned before
OperatorNodeWitness ==
    /\ OperatorTokensOnly
    /\ count >= 2
    /\ \E n \in OperatorNodes(G) : Cardinality(InEdges(G, n)) = 1
    /\ \E n \in OperatorNodes(G) : Cardinality(InEdges(G, n)) = 2
    /\ \E i \in BinaryAt : lines[i][1] \in NodeSet(After(i - 1).G)

====
